---- MODULE Spec2Model ----
(***************************************************************************)
(* Techno-economic analysis of a barrier-film value chain.                 *)
(*                                                                         *)
(* Technology.py evaluates one process step from the rows of the design    *)
(* table and the shared, mutable financial table; Scenario.py solves the   *)
(* mass balance of an end-of-life allocation, evaluates the technologies   *)
(* of the value chain in order and aggregates their costs.                 *)
(*                                                                         *)
(* Numbers: the program computes in IEEE doubles; the model computes in    *)
(* exact rationals <<numerator, denominator>> (denominator > 0, lowest     *)
(* terms), with <<0, 0>> standing for NaN (a left merge without a match).  *)
(* The input tables are drawn with positive output amounts and positive    *)
(* efficiencies, so no division by zero is reachable.                      *)
(***************************************************************************)
EXTENDS Integers, Sequences, FiniteSets, TLC

(***************************************************************************)
(* Rational arithmetic                                                     *)
(***************************************************************************)
NaN == <<0, 0>>

IsNaN(a) == a[2] = 0

Abs(n) == IF n < 0 THEN -n ELSE n

RECURSIVE GCD(_, _)
GCD(a, b) == IF b = 0 THEN a ELSE GCD(b, a % b)

Norm(n, d) ==
  IF d = 0 THEN NaN
  ELSE LET g == GCD(Abs(n), Abs(d))
           s == IF d < 0 THEN -1 ELSE 1
       IN  <<(s * n) \div g, (s * d) \div g>>

R(n, d) == Norm(n, d)

Zero == R(0, 1)

One == R(1, 1)

RAdd(a, b) ==
  IF IsNaN(a) \/ IsNaN(b) THEN NaN
  ELSE Norm(a[1] * b[2] + b[1] * a[2], a[2] * b[2])

RSub(a, b) ==
  IF IsNaN(a) \/ IsNaN(b) THEN NaN
  ELSE Norm(a[1] * b[2] - b[1] * a[2], a[2] * b[2])

RMul(a, b) ==
  IF IsNaN(a) \/ IsNaN(b) THEN NaN
  ELSE Norm(a[1] * b[1], a[2] * b[2])

RDiv(a, b) ==
  IF IsNaN(a) \/ IsNaN(b) THEN NaN
  ELSE Norm(a[1] * b[2], a[2] * b[1])

RECURSIVE RPow(_, _)
RPow(a, n) == IF n = 0 THEN One ELSE RMul(a, RPow(a, n - 1))

\* Python's builtin sum(): a NaN term makes the sum NaN.
RECURSIVE BuiltinSum(_)
BuiltinSum(s) == IF s = <<>> THEN Zero ELSE RAdd(Head(s), BuiltinSum(Tail(s)))

\* pandas Series.sum(): NaN terms are skipped.
RECURSIVE SeriesSum(_)
SeriesSum(s) ==
  IF s = <<>> THEN Zero
  ELSE IF IsNaN(Head(s)) THEN SeriesSum(Tail(s))
  ELSE RAdd(Head(s), SeriesSum(Tail(s)))

\* sum([r**i for i in range(n + 1)])
RECURSIVE GeomSum(_, _)
GeomSum(r, n) == IF n = 0 THEN One ELSE RAdd(GeomSum(r, n - 1), RPow(r, n))

(***************************************************************************)
(* Table operations (pandas)                                               *)
(***************************************************************************)
\* df[['Index','Value']]
IndexValue(rows) == [k \in 1..Len(rows) |-> [Index |-> rows[k].Index, Value |-> rows[k].Value]]

\* The Value column of a frame.
Values(rows) == [k \in 1..Len(rows) |-> rows[k].Value]

\* left.merge(right, on='Index'): inner join, the left rows' order kept, every
\* matching right row paired.
RECURSIVE Merge(_, _)
Merge(left, right) ==
  IF left = <<>> THEN <<>>
  ELSE LET h == Head(left)
           m == SelectSeq(right, LAMBDA y : y.Index = h.Index)
       IN  [k \in 1..Len(m) |->
              [Index |-> h.Index, Value_x |-> h.Value, Value_y |-> m[k].Value]]
           \o Merge(Tail(left), right)

\* left.merge(right, on='Index', how='left'): a left row without a match is kept
\* with a NaN Value_y.
RECURSIVE MergeLeft(_, _)
MergeLeft(left, right) ==
  IF left = <<>> THEN <<>>
  ELSE LET h == Head(left)
           m == SelectSeq(right, LAMBDA y : y.Index = h.Index)
       IN  (IF m = <<>>
            THEN <<[Index |-> h.Index, Value_x |-> h.Value, Value_y |-> NaN]>>
            ELSE [k \in 1..Len(m) |->
                    [Index |-> h.Index, Value_x |-> h.Value, Value_y |-> m[k].Value]])
           \o MergeLeft(Tail(left), right)

(***************************************************************************)
(* Input data: the three sheets of the data file                           *)
(***************************************************************************)
D(t, v, i, val) == [Technology |-> t, Variable |-> v, Index |-> i, Value |-> val]

F(c, v, i, val) == [Category |-> c, Variable |-> v, Index |-> i, Value |-> val]

\* The Design sheet, for given output efficiencies of the cleaning process (eM),
\* the solvent treatment (eS) and the barrier film production (eBF).
DesignTable(eM, eS, eBF) == <<
  D("Barrier Film", "Output efficiency", "Barrier film", eBF),
  D("Barrier Film", "Output", "Barrier film", R(2, 1)),
  D("Barrier Film", "Output", "Trim", R(1, 1)),
  D("Barrier Film", "Capital scale", "Extruder", R(1, 1)),
  D("Barrier Film", "Capital depreciation", "Extruder", R(2, 1)),
  D("Barrier Film", "Input", "Nylon 6", R(1, 1)),
  D("Barrier Film", "Input", "Polyethylene", R(1, 1)),
  D("Barrier Film", "Input", "Contingency", R(1, 1)),
  D("Barrier Film", "Labor", "Operator", R(1, 1)),
  D("Barrier Film", "Utilities", "Electricity", R(1, 1)),
  D("Film Line", "Output efficiency", "Barrier film", R(1, 1)),
  D("Film Line", "Output", "Barrier film", R(1, 1)),
  D("Film Line", "Input", "Polyethylene", R(3, 1)),
  D("Landfilling", "Output efficiency", "Landfilled waste", R(1, 1)),
  D("Landfilling", "Output", "Landfilled waste", R(1, 1)),
  D("Landfilling", "Input", "Barrier film", R(1, 1)),
  D("Pyrolysis", "Output efficiency", "Pyrolysis oil", R(1, 2)),
  D("Pyrolysis", "Output", "Pyrolysis oil", R(2, 1)),
  D("Pyrolysis", "Input", "Barrier film", R(1, 1)),
  D("Pyrolysis", "Utilities", "Electricity", R(1, 1)),
  D("Mechanical Recycling", "Output efficiency", "Recycled resin", R(1, 2)),
  D("Mechanical Recycling", "Output", "Recycled resin", R(2, 1)),
  D("Mechanical Recycling", "Labor", "Operator", R(1, 1)),
  D("Mechanical and Solvent Cleaning", "Output efficiency", "Barrier film", eM),
  D("Mechanical and Solvent Cleaning", "Output", "Barrier film", R(2, 1)),
  D("Mechanical and Solvent Cleaning", "Input", "Barrier film", R(1, 1)),
  D("Mechanical and Solvent Cleaning", "Input", "Solvent", R(1, 1)),
  D("Solvent Treatment and Precipitation", "Output efficiency", "Nylon 6", eS),
  D("Solvent Treatment and Precipitation", "Output efficiency", "Polyethylene", eS),
  D("Solvent Treatment and Precipitation", "Output", "Nylon 6", R(1, 1)),
  D("Solvent Treatment and Precipitation", "Output", "Polyethylene", R(2, 1)),
  D("Solvent Treatment and Precipitation", "Input", "Barrier film", R(1, 1)),
  D("Solvent Treatment and Precipitation", "Input", "Solvent", R(1, 1)) >>

\* The Financial sheet.
FinancialTable == <<
  F("Parameter", "Operating Hours", "Operating Hours", R(2, 1)),
  F("Parameter", "Working Hours", "Working Hours", R(2, 1)),
  F("Cost Multiplier", "Multiplier", "Installation", R(1, 1)),
  F("Cost Multiplier", "Multiplier", "Maintenance", R(1, 2)),
  F("Cost Multiplier", "Labor", "Burden", R(1, 2)),
  F("Cost", "Capital", "Extruder", R(4, 1)),
  F("Cost", "Input", "Nylon 6", R(2, 1)),
  F("Cost", "Input", "Polyethylene", R(1, 1)),
  F("Cost", "Input", "Barrier film", R(3, 1)),
  F("Cost", "Input", "Solvent", R(1, 1)),
  F("Cost", "Input", "Contingency", R(1, 2)),
  F("Cost", "Labor", "Operator", R(1, 1)),
  F("Cost", "Utilities", "Electricity", R(1, 1)),
  F("Cost", "Waste", "Waste disposal", R(1, 1)),
  F("Revenue", "Output", "Barrier film", R(5, 1)),
  F("Revenue", "Output", "Nylon 6", R(2, 1)),
  F("Revenue", "Output", "Pyrolysis oil", R(1, 1)) >>

\* The Structure sheet.
StructureTable == <<
  [Technology |-> "Solvent Treatment and Precipitation", Downstream |-> "Barrier Film"] >>

(***************************************************************************)
(* Technology.py: the evaluation of one technology.  In the operators      *)
(* below, design is the technology's own rows (self.design), finan the     *)
(* shared financial table (self.finan) and op_hrs_yr the operating hours.  *)
(***************************************************************************)
Row(i, v) == [index |-> i, Value |-> v]

\* finan.Value.loc[...].values used as a factor: the array of the one matching row.
Scalar(rows) == rows[1].Value

WithVariable(rows, v) == SelectSeq(rows, LAMBDA r : r.Variable = v)

WithIndex(rows, i) == SelectSeq(rows, LAMBDA r : r.Index = i)

\* The design rows of the technology's non-contingency inputs joined with the
\* input prices; cost = amount * price.
InputCosts(design, finan) ==
  LET mats == Merge(IndexValue(SelectSeq(design,
                       LAMBDA r : r.Variable = "Input" /\ r.Index # "Contingency")),
                    IndexValue(WithVariable(finan, "Input")))
  IN  [k \in 1..Len(mats) |->
         [Index |-> mats[k].Index, cost |-> RMul(mats[k].Value_x, mats[k].Value_y)]]

Costs(rows) == [k \in 1..Len(rows) |-> rows[k].cost]

\* capital(): <<one-time costs, annual costs>>
capital(design, finan) ==
  LET cap == MergeLeft(IndexValue(WithVariable(design, "Capital scale")),
                       IndexValue(WithVariable(finan, "Capital")))
      inst == Scalar(WithIndex(finan, "Installation"))
      maint == Scalar(WithIndex(finan, "Maintenance"))
      cap_cost == [k \in 1..Len(cap) |->
                     LET purch == RMul(cap[k].Value_x, cap[k].Value_y)
                     IN  [Index |-> cap[k].Index, purch |-> purch,
                          installed |-> RMul(RAdd(One, inst), purch)]]
      depr == IndexValue(WithVariable(design, "Capital depreciation"))
      cap_ann == Merge([k \in 1..Len(cap_cost) |->
                          [Index |-> cap_cost[k].Index, Value |-> cap_cost[k].installed]],
                       depr)
      cost_ann == [k \in 1..Len(cap_ann) |-> RDiv(cap_ann[k].Value_x, cap_ann[k].Value_y)]
      maint_ann == [k \in 1..Len(cap_cost) |-> RMul(maint, cap_cost[k].purch)]
  IN  << << Row("Capital Purchased",
                BuiltinSum([k \in 1..Len(cap_cost) |-> cap_cost[k].purch])),
            Row("Capital Installed",
                BuiltinSum([k \in 1..Len(cap_cost) |-> cap_cost[k].installed])) >>,
         << Row("Capital, Annualized", BuiltinSum(cost_ann)),
            Row("Maintenance", BuiltinSum(maint_ann)) >> >>

\* raw_material()
raw_material(name, design, finan, op_hrs_yr) ==
  LET mats == InputCosts(design, finan)
  IN  IF name # "Landfilling"
      THEN << Row("Raw Material",
                  RMul(SeriesSum(Costs(SelectSeq(mats, LAMBDA m : m.Index # "Barrier film"))),
                       op_hrs_yr)),
              Row("Barrier Film",
                  RMul(SeriesSum(Costs(SelectSeq(mats, LAMBDA m : m.Index = "Barrier film"))),
                       op_hrs_yr)) >>
      ELSE << Row("Raw Material", Zero), Row("Barrier Film", Zero) >>

\* labor()
labor(design, finan) ==
  LET lab == Merge(IndexValue(WithVariable(design, "Labor")),
                   IndexValue(WithVariable(finan, "Labor")))
      cost == [k \in 1..Len(lab) |-> RMul(lab[k].Value_x, lab[k].Value_y)]
      work_hrs == Scalar(WithVariable(finan, "Working Hours"))
      burden == Scalar(SelectSeq(finan,
                  LAMBDA r : r.Category = "Cost Multiplier" /\ r.Variable = "Labor"))
  IN  << Row("Labor", RMul(RMul(SeriesSum(cost), work_hrs), RAdd(One, burden))) >>

\* utilities()
utilities(design, finan, op_hrs_yr) ==
  LET util == Merge(IndexValue(WithVariable(design, "Utilities")),
                    IndexValue(WithVariable(finan, "Utilities")))
      cost == [k \in 1..Len(util) |-> RMul(util[k].Value_x, util[k].Value_y)]
  IN  << Row("Utilities", RMul(SeriesSum(cost), op_hrs_yr)) >>

\* wastes()
wastes(name, design, finan, op_hrs_yr) ==
  LET waste == Merge(IndexValue(WithVariable(design, "Output")),
                     IndexValue(WithVariable(design, "Output efficiency")))
      tip_fee == Scalar(WithIndex(finan, "Waste disposal"))
      cost == [k \in 1..Len(waste) |->
                 RMul(RMul(tip_fee, waste[k].Value_x), RSub(One, waste[k].Value_y))]
  IN  IF name # "Landfilling"
      THEN << Row("Waste Disposal", RMul(SeriesSum(cost), op_hrs_yr)) >>
      ELSE << Row("Waste disposal",
                  RMul(SeriesSum(Costs(InputCosts(design, finan))), op_hrs_yr)) >>

\* other_costs()
other_costs(design, finan, op_hrs_yr) ==
  LET contin == Merge(IndexValue(WithIndex(design, "Contingency")),
                      IndexValue(WithIndex(finan, "Contingency")))
  IN  IF contin = <<>>
      THEN << Row("Contingency", Zero) >>
      ELSE [k \in 1..Len(contin) |->
              Row(contin[k].Index,
                  RMul(RMul(contin[k].Value_x, contin[k].Value_y), op_hrs_yr))]

\* production(): one line per output, with its actual and theoretical annual amount
production(design, op_hrs_yr) ==
  IF WithVariable(design, "Output efficiency") # <<>>
  THEN LET out == Merge(IndexValue(WithVariable(design, "Output")),
                        IndexValue(WithVariable(design, "Output efficiency")))
       IN  [k \in 1..Len(out) |->
              [Index |-> out[k].Index,
               Actual |-> RMul(RMul(out[k].Value_x, out[k].Value_y), op_hrs_yr),
               Theoretical |-> RMul(out[k].Value_x, op_hrs_yr)]]
  ELSE LET out == IndexValue(WithVariable(design, "Output"))
       IN  [k \in 1..Len(out) |->
              [Index |-> out[k].Index,
               Actual |-> RMul(out[k].Value, op_hrs_yr),
               Theoretical |-> RMul(out[k].Value, op_hrs_yr)]]

\* The revenue lines of the output lines `out`: price * actual amount, by a left
\* merge with the output prices.
Revenue(out, finan) ==
  LET prices == IndexValue(WithVariable(finan, "Output"))
      rev == MergeLeft([k \in 1..Len(out) |-> [Index |-> out[k].Index, Value |-> out[k].Actual]],
                       prices)
  IN  [k \in 1..Len(rev) |->
         [Index |-> rev[k].Index, Value |-> RMul(rev[k].Value_y, rev[k].Value_x)]]

\* coproduct_revenue()
coproduct_revenue(output_amounts, product, finan) ==
  Revenue(SelectSeq(output_amounts, LAMBDA o : o.Index # product), finan)

\* product_revenue()
product_revenue(output_amounts, product, finan) ==
  Revenue(SelectSeq(output_amounts, LAMBDA o : o.Index = product), finan)

\* Value / x for every line of a frame.
DivideValues(rows, x) == [k \in 1..Len(rows) |-> [rows[k] EXCEPT !.Value = RDiv(@, x)]]

\* A variant that suppresses the input cost of nylon 6 only.
SuppressNylonOnly(finan, initial) ==
  IF initial THEN finan
  ELSE [k \in 1..Len(finan) |->
          IF /\ finan[k].Category = "Cost"
             /\ finan[k].Variable = "Input"
             /\ finan[k].Index = "Nylon 6"
          THEN [finan[k] EXCEPT !.Value = Zero]
          ELSE finan[k]]

\* if not initial: the input-cost rows of nylon 6 and polyethylene are set to 0.0
SuppressInputs(finan, initial) ==
  IF initial THEN finan
  ELSE [k \in 1..Len(finan) |->
          IF /\ finan[k].Category = "Cost"
             /\ finan[k].Variable = "Input"
             /\ finan[k].Index \in {"Nylon 6", "Polyethylene"}
          THEN [finan[k] EXCEPT !.Value = Zero]
          ELSE finan[k]]

\* The technologies whose revenue is that of their co-products.
CoproductTechnologies ==
  {"Barrier Film", "Mechanical and Solvent Cleaning", "Solvent Treatment and Precipitation"}

\* The computation of Technology.__init__ once the technology and its product
\* are found: the instance, evaluated on the table `finan`.
Evaluate(name, product, design, finan, output) ==
  LET op_hrs_yr == Scalar(WithVariable(finan, "Operating Hours"))
      cap == capital(design, finan)
      annual_costs == cap[2] \o raw_material(name, design, finan, op_hrs_yr)
                        \o labor(design, finan) \o utilities(design, finan, op_hrs_yr)
                        \o wastes(name, design, finan, op_hrs_yr)
                        \o other_costs(design, finan, op_hrs_yr)
      output_amounts == production(design, op_hrs_yr)
      primary == output_amounts[1].Actual
      normalized_costs == DivideValues(annual_costs, primary)
      annual_revenue == IF name \notin CoproductTechnologies
                        THEN product_revenue(output_amounts, product, finan)
                        ELSE coproduct_revenue(output_amounts, product, finan)
      normalized_revenue == DivideValues(annual_revenue, primary)
      net == RSub(SeriesSum(Values(normalized_costs)), SeriesSum(Values(normalized_revenue)))
  IN  [name |-> name, product |-> product, output |-> output,
       onetime_costs |-> cap[1], annual_costs |-> annual_costs,
       output_amounts |-> output_amounts, normalized_costs |-> normalized_costs,
       annual_revenue |-> annual_revenue, normalized_revenue |-> normalized_revenue,
       net_normalized_costs |-> net, production_cost |-> RMul(output, net)]

\* No instance: the evaluation ended in sys.exit.
NoInstance == [name |-> "none"]

\* A variant that suppresses the input costs whatever the initial flag.
TechnologyAlwaysSuppress(name, product, design_data, financial_data, initial, output) ==
  LET design == SelectSeq(design_data, LAMBDA r : r.Technology = name)
      finan == SuppressInputs(financial_data, FALSE)
  IN  IF design = <<>>
      THEN [error |-> "technology", finan |-> financial_data, inst |-> NoInstance]
      ELSE IF WithIndex(WithVariable(design, "Output"), product) = <<>>
      THEN [error |-> "product", finan |-> financial_data, inst |-> NoInstance]
      ELSE [error |-> "none", finan |-> finan,
            inst |-> Evaluate(name, product, design, finan, output)]

\* A variant that suppresses the input costs before it looks for the technology
\* and the product.
TechnologySuppressFirst(name, product, design_data, financial_data, initial, output) ==
  LET design == SelectSeq(design_data, LAMBDA r : r.Technology = name)
      finan == SuppressInputs(financial_data, initial)
  IN  IF design = <<>>
      THEN [error |-> "technology", finan |-> finan, inst |-> NoInstance]
      ELSE IF WithIndex(WithVariable(design, "Output"), product) = <<>>
      THEN [error |-> "product", finan |-> finan, inst |-> NoInstance]
      ELSE [error |-> "none", finan |-> finan,
            inst |-> Evaluate(name, product, design, finan, output)]

\* Technology.__init__: <<error, financial table afterwards, instance>>.  error is
\* "none", "technology" (no design row of that name) or "product" (the product is
\* no Output of the technology).
Technology(name, product, design_data, financial_data, initial, output) ==
  LET design == SelectSeq(design_data, LAMBDA r : r.Technology = name)
      finan == SuppressInputs(financial_data, initial)
  IN  IF design = <<>>
      THEN [error |-> "technology", finan |-> financial_data, inst |-> NoInstance]
      ELSE IF WithIndex(WithVariable(design, "Output"), product) = <<>>
      THEN [error |-> "product", finan |-> financial_data, inst |-> NoInstance]
      ELSE [error |-> "none", finan |-> finan,
            inst |-> Evaluate(name, product, design, finan, output)]

(***************************************************************************)
(* Scenario.py: the inputs of a scenario                                   *)
(***************************************************************************)
\* Largest number of closed-loop cycles of an allocation entry.
MaxCycles == 2

\* Largest number of entries of an allocation.
MaxEntries == 2

Efficiencies == {R(1, 2), One}

Fractions == {R(1, 3), R(1, 2), One}

FuncUnits == {One, R(2, 1)}

\* The production_process argument; "Sheet Molding Compound" has no row in the
\* design table.
ProductionProcesses == {"Barrier Film", "Film Line", "Sheet Molding Compound"}

ClosedLoop == {"Mechanical and Solvent Cleaning", "Solvent Treatment and Precipitation"}

\* The names an allocation may use.
EolKeys == ClosedLoop \cup {"Landfilling", "Pyrolysis", "Mechanical Recycling"}

\* The products argument: the primary product of each EOL process.
products ==
  [k \in EolKeys |->
     CASE k = "Landfilling" -> "Landfilled waste"
       [] k = "Pyrolysis" -> "Pyrolysis oil"
       [] k = "Mechanical Recycling" -> "Recycled resin"
       [] k = "Mechanical and Solvent Cleaning" -> "Barrier film"
       [] OTHER -> "Polyethylene"]

RECURSIVE SumFractions(_)
SumFractions(sc) == IF sc = <<>> THEN Zero ELSE RAdd(Head(sc).frac, SumFractions(Tail(sc)))

Leq(a, b) == a[1] * b[2] <= b[1] * a[2]

\* The eol_sc argument in the dictionary's iteration order: distinct keys, the
\* fractions of the film summing to at most 1, a cycle count only for the
\* closed loops.
Allocations ==
  LET Entries == [key : EolKeys, frac : Fractions, n : 0..MaxCycles]
      Ok(sc) == /\ \A a, b \in DOMAIN sc : a # b => sc[a].key # sc[b].key
                /\ \A a \in DOMAIN sc : sc[a].key \notin ClosedLoop => sc[a].n = 0
                /\ Leq(SumFractions(sc), One)
  IN  UNION {{sc \in [1..len -> Entries] : Ok(sc)} : len \in 0..MaxEntries}

(***************************************************************************)
(* Scenario.__init__ as a state machine: one action per statement group    *)
(* between two technology evaluations.                                     *)
(***************************************************************************)
VARIABLES
  efficiency,        \* the output efficiencies of the Design sheet read
  finan,             \* self.finan, shared by every Technology
  production_process,
  func_unit,
  eol_sc,
  pc,                \* the position in Scenario.__init__
  i,                 \* the entry of eol_sc the current loop is at
  virg_prod,         \* _virg_prod
  prod_masc,         \* _prod_masc
  prod_strap,        \* _prod_strap
  prod_amt,          \* _prod_amt
  downst,            \* _downst
  eff_downst,        \* _eff_downst
  film_to_landfill,  \* _film_to_landfill
  downst_film,       \* _downst_film
  value_chain,       \* self.value_chain
  totals,            \* total_eol_cost, total_cost, virgin_prod, final_landfill
  failure,           \* the exception that ended the run, "none" otherwise
  call,              \* a direct Technology(...) call: its arguments
  result             \* and its outcome

vars == <<efficiency, finan, production_process, func_unit, eol_sc, pc, i, virg_prod,
          prod_masc, prod_strap, prod_amt, downst, eff_downst, film_to_landfill,
          downst_film, value_chain, totals, failure, call, result>>

inputs == <<efficiency, production_process, func_unit, eol_sc>>

locals == <<virg_prod, prod_masc, prod_strap, prod_amt, downst, eff_downst>>

direct == <<call, result>>

\* A local variable that has not been assigned.
Unbound == <<1, 0>>

NoTotals == [total_eol_cost |-> Unbound, total_cost |-> Unbound,
             virgin_prod |-> Unbound, final_landfill |-> Unbound,
             process_production_costs |-> <<>>]

NoCall == [name |-> "none"]

\* The product argument of the scenario.
product == "Barrier film"

Init ==
  /\ efficiency \in [recycle : Efficiencies, film : Efficiencies]
  /\ finan = FinancialTable
  /\ production_process \in ProductionProcesses
  /\ func_unit \in FuncUnits
  /\ eol_sc \in Allocations
  /\ pc = "prod_eff"
  /\ i = 1
  /\ virg_prod = Zero
  /\ prod_masc = Zero
  /\ prod_strap = Zero
  /\ prod_amt = Zero
  /\ downst = "unbound"
  /\ eff_downst = Unbound
  /\ film_to_landfill = Unbound
  /\ downst_film = NoInstance
  /\ value_chain = <<>>
  /\ totals = NoTotals
  /\ failure = "none"
  /\ call = NoCall
  /\ result = NoCall

\* self.design
design == DesignTable(efficiency.recycle, efficiency.recycle, efficiency.film)

\* design[...].loc[Technology == t & Variable == 'Output efficiency'].Value.values
OutputEfficiencies(d, t) ==
  Values(SelectSeq(d, LAMBDA r : r.Technology = t /\ r.Variable = "Output efficiency"))

\* struct.Downstream.loc[struct.Technology == t].values
Downstreams(t) ==
  LET rows == SelectSeq(StructureTable, LAMBDA r : r.Technology = t)
  IN  [k \in 1..Len(rows) |-> rows[k].Downstream]

Fail(kind) ==
  /\ pc' = "failed"
  /\ failure' = kind

\* _prod_eff = ...values[0]
ReadProdEff ==
  /\ pc = "prod_eff"
  /\ IF OutputEfficiencies(design, production_process) = <<>>
     THEN Fail("IndexError")
     ELSE /\ pc' = IF eol_sc = <<>> THEN "initial" ELSE "mass_balance"
          /\ failure' = failure
  /\ UNCHANGED <<inputs, finan, i, locals, film_to_landfill, downst_film, value_chain,
                 totals, direct>>

\* The amount of virgin production for a closed loop of survival rate r.
VirginProduction(frac, r, n) ==
  RDiv(RMul(frac, func_unit), RAdd(One, GeomSum(r, n)))

\* The total amount processed through a closed loop of survival rate r.
RECURSIVE LoopThroughput(_, _, _, _)
LoopThroughput(frac, r, n, k) ==
  LET term == RDiv(RMul(RMul(frac, func_unit), RPow(r, k)), RAdd(One, GeomSum(r, n)))
  IN  IF k = 0 THEN term ELSE RAdd(LoopThroughput(frac, r, n, k - 1), term)

\* One iteration of the first loop over eol_sc: the mass balance of entry i.
MassBalance ==
  /\ pc = "mass_balance"
  /\ LET key == eol_sc[i].key
         eol_frac == eol_sc[i].frac
         n_cycles == eol_sc[i].n
         effs == OutputEfficiencies(design, key)
         next == IF i = Len(eol_sc) THEN "initial" ELSE "mass_balance"
     IN  IF effs = <<>>
         THEN /\ Fail("IndexError")
              /\ UNCHANGED <<i, locals>>
         ELSE LET recyc_eff == effs[1] IN
              CASE key = "Mechanical and Solvent Cleaning" ->
                     /\ virg_prod' = VirginProduction(eol_frac, recyc_eff, n_cycles)
                     /\ prod_masc' = LoopThroughput(eol_frac, recyc_eff, n_cycles, n_cycles)
                     /\ pc' = next
                     /\ i' = IF i = Len(eol_sc) THEN 1 ELSE i + 1
                     /\ UNCHANGED <<prod_strap, prod_amt, downst, eff_downst, failure>>
                [] key = "Solvent Treatment and Precipitation" ->
                     IF Downstreams(key) = <<>>
                        \/ OutputEfficiencies(design, Downstreams(key)[1]) = <<>>
                     THEN /\ Fail("IndexError")
                          /\ UNCHANGED <<i, locals>>
                     ELSE LET d == Downstreams(key)[1]
                              e == OutputEfficiencies(design, d)[1]
                          IN  /\ downst' = d
                              /\ eff_downst' = e
                              /\ virg_prod' = VirginProduction(eol_frac, RMul(e, recyc_eff), n_cycles)
                              /\ prod_strap' = LoopThroughput(eol_frac, RMul(e, recyc_eff),
                                                              n_cycles, n_cycles)
                              /\ pc' = next
                              /\ i' = IF i = Len(eol_sc) THEN 1 ELSE i + 1
                              /\ UNCHANGED <<prod_masc, prod_amt, failure>>
                [] OTHER ->
                     /\ prod_amt' = RAdd(prod_amt, RMul(func_unit, eol_frac))
                     /\ virg_prod' = func_unit
                     /\ pc' = next
                     /\ i' = IF i = Len(eol_sc) THEN 1 ELSE i + 1
                     /\ UNCHANGED <<prod_masc, prod_strap, downst, eff_downst, failure>>
  /\ UNCHANGED <<inputs, finan, film_to_landfill, downst_film, value_chain, totals, direct>>

\* An instance under another name (the composer renames what it appends).
Renamed(inst, name) == [inst EXCEPT !.name = name]

\* The prices of barrier film in a financial table.
BarrierFilmPrices(table) == Values(WithIndex(table, "Barrier film"))

\* What the value chain keeps of an evaluation t: the attributes the composer
\* reads and, for the properties below, the arguments of the evaluation
\* (technology: the name it was constructed with; initial: its flag) and the
\* barrier film prices it computed with (price_seen).
ChainEntry(t, initial) ==
  [name |-> t.inst.name, product |-> t.inst.product, output |-> t.inst.output,
   net_normalized_costs |-> t.inst.net_normalized_costs,
   production_cost |-> t.inst.production_cost,
   technology |-> t.inst.name, initial |-> initial,
   price_seen |-> BarrierFilmPrices(t.finan)]

\* self.value_chain = [Technology(production_process, ...)], renamed ', initial'
EvalInitial ==
  /\ pc = "initial"
  /\ \E t \in {Technology(production_process, product, design, finan, TRUE, virg_prod)} :
         IF t.error # "none"
         THEN /\ Fail(t.error)
              /\ UNCHANGED <<finan, value_chain>>
         ELSE /\ finan' = t.finan
              /\ value_chain' = <<Renamed(ChainEntry(t, TRUE), production_process \o ", initial")>>
              /\ pc' = IF eol_sc = <<>> THEN "aggregate" ELSE "eol"
              /\ failure' = failure
  /\ UNCHANGED <<inputs, i, locals, film_to_landfill, downst_film, totals, direct>>

\* A variant that forgets one of the sinks.
SinksWithoutPyrolysis == {"Landfilling", "Incineration"}

TerminalSinks == {"Landfilling", "Incineration", "Pyrolysis"}

\* The share of polyethylene in the film made from the solvent treatment's materials.
PolyethyleneShare == R(7, 10)

\* The output required of the EOL technology of an entry.
EolOutput(key, eol_frac) ==
  CASE key = "Mechanical and Solvent Cleaning" -> prod_masc
    [] key = "Solvent Treatment and Precipitation" ->
         RDiv(RMul(PolyethyleneShare, prod_strap), eff_downst)
    [] OTHER -> RMul(func_unit, eol_frac)

\* A variant that landfills the film lost in the cycles, not the film that
\* survives them.
FilmLostInCycles(eol_frac, r, n) == RMul(RMul(virg_prod, eol_frac), RSub(One, RPow(r, n)))

\* The film left for the final landfilling of an entry whose per-cycle survival
\* rate is r.
FilmToLandfill(eol_frac, r, n) == RMul(RMul(virg_prod, eol_frac), RPow(r, n))

\* The second loop over eol_sc, entry i: the EOL technology is evaluated and appended.
EvalEOL ==
  /\ pc = "eol"
  /\ LET key == eol_sc[i].key
         eol_frac == eol_sc[i].frac
         n_cycles == eol_sc[i].n
         recyc_eff == OutputEfficiencies(design, key)[1]
     IN  \E t \in {Technology(key, products[key], design, finan, TRUE,
                                EolOutput(key, eol_frac))} :
         IF t.error # "none"
         THEN /\ Fail(t.error)
              /\ UNCHANGED <<finan, value_chain, film_to_landfill>>
         ELSE /\ finan' = t.finan
              /\ value_chain' = Append(value_chain, ChainEntry(t, TRUE))
              /\ failure' = failure
              /\ CASE key = "Mechanical and Solvent Cleaning" ->
                        /\ film_to_landfill' = FilmToLandfill(eol_frac, recyc_eff, n_cycles)
                        /\ pc' = "final"
                   [] key = "Solvent Treatment and Precipitation" ->
                        /\ film_to_landfill' = film_to_landfill
                        /\ pc' = "downstream"
                   [] OTHER ->
                        /\ film_to_landfill' =
                             IF key \notin TerminalSinks
                             THEN FilmToLandfill(eol_frac, recyc_eff, 1)
                             ELSE Zero
                        /\ pc' = "final"
  /\ UNCHANGED <<inputs, i, locals, downst_film, totals, direct>>

\* _downst_film = Technology(_downst, 'Barrier film', initial=False, ...)
EvalDownstream ==
  /\ pc = "downstream"
  /\ LET recyc_eff == OutputEfficiencies(design, eol_sc[i].key)[1]
     IN  \E t \in {Technology(downst, "Barrier film", design, finan, FALSE, prod_strap)} :
         IF t.error # "none"
         THEN /\ Fail(t.error)
              /\ UNCHANGED <<finan, downst_film, film_to_landfill>>
         ELSE /\ finan' = t.finan
              /\ downst_film' = ChainEntry(t, FALSE)
              /\ film_to_landfill' =
                   FilmToLandfill(eol_sc[i].frac, RMul(recyc_eff, eff_downst), eol_sc[i].n)
              /\ pc' = "feedback"
              /\ failure' = failure
  /\ UNCHANGED <<inputs, i, locals, value_chain, totals, direct>>

\* A variant that leaves the price of barrier film as it is.
KeepBarrierFilm(table, x) == table

\* self.finan.loc[self.finan.Index == 'Barrier film', 'Value'] = x
OverwriteBarrierFilm(table, x) ==
  [k \in 1..Len(table) |->
     IF table[k].Index = "Barrier film" THEN [table[k] EXCEPT !.Value = x] ELSE table[k]]

\* A variant that puts the downstream film before the instance of its EOL
\* technology.
FeedbackBeforeEol ==
  /\ pc = "feedback"
  /\ finan' = OverwriteBarrierFilm(finan, downst_film.net_normalized_costs)
  /\ value_chain' = SubSeq(value_chain, 1, Len(value_chain) - 1)
                      \o <<downst_film, value_chain[Len(value_chain)]>>
  /\ pc' = "final"
  /\ UNCHANGED <<inputs, i, locals, film_to_landfill, downst_film, totals, failure, direct>>

\* The price of barrier film is overwritten and the downstream film appended.
Feedback ==
  /\ pc = "feedback"
  /\ finan' = OverwriteBarrierFilm(finan, downst_film.net_normalized_costs)
  /\ value_chain' = Append(value_chain, downst_film)
  /\ pc' = "final"
  /\ UNCHANGED <<inputs, i, locals, film_to_landfill, downst_film, totals, failure, direct>>

\* The end of an iteration of the second loop.
NextEntry ==
  /\ pc' = IF i = Len(eol_sc) THEN "aggregate" ELSE "eol"
  /\ i' = IF i = Len(eol_sc) THEN i ELSE i + 1

\* if _film_to_landfill != 0.0: a 'Landfilling, final' instance is appended
FinalLandfill ==
  /\ pc = "final"
  /\ film_to_landfill # Zero
  /\ \E t \in {Technology("Landfilling", "Landfilled waste", design, finan, TRUE,
                          film_to_landfill)} :
         IF t.error # "none"
         THEN /\ Fail(t.error)
              /\ UNCHANGED <<finan, value_chain, i>>
         ELSE /\ finan' = t.finan
              /\ value_chain' = Append(value_chain, Renamed(ChainEntry(t, TRUE), "Landfilling, final"))
              /\ NextEntry
              /\ failure' = failure
  /\ UNCHANGED <<inputs, locals, film_to_landfill, downst_film, totals, direct>>

\* _film_to_landfill == 0.0: nothing is appended
NoFinalLandfill ==
  /\ pc = "final"
  /\ film_to_landfill = Zero
  /\ NextEntry
  /\ UNCHANGED <<inputs, finan, locals, film_to_landfill, downst_film, value_chain,
                 totals, failure, direct>>

\* The names total_eol_cost leaves out.
EolExcluded == {"Sheet Molding Compound", "Barrier Film, initial"}

ProductionCosts(chain) == [k \in 1..Len(chain) |-> chain[k].production_cost]

\* {i.name: i.production_cost for i in chain} as the rows of a frame: a name
\* keeps the place of its first instance and the cost of its last.
RECURSIVE FromDict(_, _)
FromDict(chain, rows) ==
  IF chain = <<>> THEN rows
  ELSE LET t == Head(chain)
           row == [Technology |-> t.name, Cost |-> t.production_cost]
       IN  FromDict(Tail(chain),
                    IF \E k \in DOMAIN rows : rows[k].Technology = t.name
                    THEN [k \in DOMAIN rows |->
                            IF rows[k].Technology = t.name THEN row ELSE rows[k]]
                    ELSE Append(rows, row))

\* The scenario-level totals and the table of production costs by technology.
Aggregate ==
  /\ pc = "aggregate"
  /\ IF film_to_landfill = Unbound
     THEN /\ Fail("NameError")
          /\ totals' = [totals EXCEPT
               !.total_eol_cost = BuiltinSum(ProductionCosts(
                  SelectSeq(value_chain, LAMBDA t : t.name \notin EolExcluded))),
               !.total_cost = BuiltinSum(ProductionCosts(value_chain)),
               !.virgin_prod = virg_prod]
     ELSE /\ totals' = [total_eol_cost |-> BuiltinSum(ProductionCosts(
                           SelectSeq(value_chain, LAMBDA t : t.name \notin EolExcluded))),
                        total_cost |-> BuiltinSum(ProductionCosts(value_chain)),
                        virgin_prod |-> virg_prod,
                        final_landfill |-> film_to_landfill,
                        process_production_costs |-> FromDict(value_chain, <<>>)]
          /\ pc' = "done"
          /\ failure' = failure
  /\ UNCHANGED <<inputs, finan, i, locals, film_to_landfill, downst_film, value_chain, direct>>

Next ==
  \/ ReadProdEff
  \/ MassBalance
  \/ EvalInitial
  \/ EvalEOL
  \/ EvalDownstream
  \/ Feedback
  \/ FinalLandfill
  \/ NoFinalLandfill
  \/ Aggregate

Spec == Init /\ [][Next]_vars

(***************************************************************************)
(* A Technology evaluated on its own: Technology(name, product, design,    *)
(* finan, initial, output) called once on the tables as read.              *)
(***************************************************************************)
TechnologyNames == EolKeys \cup ProductionProcesses

ProductNames == {"Barrier film", "Polyethylene", "Nylon 6", "Trim", "Landfilled waste",
                 "Pyrolysis oil", "Recycled resin"}

TechInit ==
  /\ efficiency \in [recycle : Efficiencies, film : Efficiencies]
  /\ finan = FinancialTable
  /\ production_process = "Barrier Film"
  /\ func_unit = One
  /\ eol_sc = <<>>
  /\ pc = "call"
  /\ i = 1
  /\ virg_prod = Zero
  /\ prod_masc = Zero
  /\ prod_strap = Zero
  /\ prod_amt = Zero
  /\ downst = "unbound"
  /\ eff_downst = Unbound
  /\ film_to_landfill = Unbound
  /\ downst_film = NoInstance
  /\ value_chain = <<>>
  /\ totals = NoTotals
  /\ failure = "none"
  /\ call \in [name : TechnologyNames, product : ProductNames, initial : BOOLEAN,
               output : FuncUnits]
  /\ result = NoCall

\* The call returns (or exits): the shared table is what the call left of it.
TechnologyCall ==
  /\ pc = "call"
  /\ \E t \in {Technology(call.name, call.product, design, finan, call.initial, call.output)} :
       /\ result' = t
       /\ finan' = t.finan
  /\ pc' = "returned"
  /\ UNCHANGED <<inputs, i, locals, film_to_landfill, downst_film, value_chain, totals,
                 failure, call>>

TechNext == TechnologyCall

TechSpec == TechInit /\ [][TechNext]_vars

(***************************************************************************)
(* Properties                                                              *)
(***************************************************************************)
\* The per-cycle survival rate of a closed loop: the efficiency of the cleaning
\* process, or that of the solvent treatment times that of the film production
\* downstream of it.
SurvivalRate(key) ==
  IF key = "Mechanical and Solvent Cleaning"
  THEN OutputEfficiencies(design, key)[1]
  ELSE RMul(OutputEfficiencies(design, "Barrier Film")[1], OutputEfficiencies(design, key)[1])

\* The allocation has the single entry of a closed loop, and the run is complete.
SingleClosedLoopDone ==
  /\ pc = "done"
  /\ Len(eol_sc) = 1
  /\ eol_sc[1].key \in ClosedLoop

\* C1: for a closed-loop entry (fraction f, n cycles, survival rate r) the virgin
\* production times the geometric sum r^0 + ... + r^n equals f * func_unit.
C1_VirginProductionGeometric ==
  SingleClosedLoopDone =>
    RMul(totals.virgin_prod, GeomSum(SurvivalRate(eol_sc[1].key), eol_sc[1].n))
      = RMul(eol_sc[1].frac, func_unit)

\* C2: a closed-loop entry with cycle count 0 and fraction f is the single-pass
\* case: the virgin production and the required output of the technology are
\* both f * func_unit.
C2_ZeroCyclesSinglePass ==
  (SingleClosedLoopDone /\ eol_sc[1].n = 0) =>
    /\ totals.virgin_prod = RMul(eol_sc[1].frac, func_unit)
    /\ value_chain[2].output = RMul(eol_sc[1].frac, func_unit)

\* Every efficiency in the closed loop of `key` is 1: no film is lost in a cycle.
NoLoss(key) ==
  /\ \A e \in {OutputEfficiencies(design, key)[k] :
                 k \in DOMAIN OutputEfficiencies(design, key)} : e = One
  /\ key = "Solvent Treatment and Precipitation" =>
       OutputEfficiencies(design, "Barrier Film")[1] = One

\* The second loop is at a closed-loop entry without loss, its leftover computed.
NoLossLeftoverComputed ==
  /\ pc = "final"
  /\ eol_sc[i].key \in ClosedLoop
  /\ NoLoss(eol_sc[i].key)

HasFinalLandfill == \E k \in DOMAIN value_chain : value_chain[k].name = "Landfilling, final"

\* C3 as stated: without loss the final-landfill quantity of a closed-loop entry
\* is zero, and no 'Landfilling, final' instance is appended for it.
C3_NoLossNoFinalLandfill ==
  /\ NoLossLeftoverComputed => film_to_landfill = Zero
  /\ (SingleClosedLoopDone /\ NoLoss(eol_sc[1].key)) =>
       /\ totals.final_landfill = Zero
       /\ ~HasFinalLandfill

\* C3 amended: without loss the final-landfill quantity of a closed-loop entry is
\* the virgin production times the entry's fraction, whatever the cycle count (the
\* film that survives the cycles is landfilled), and when it is not zero a
\* 'Landfilling, final' instance of that required output ends the entry.
C3_NoLossLandfillsSurvivingFilm ==
  /\ NoLossLeftoverComputed => film_to_landfill = RMul(virg_prod, eol_sc[i].frac)
  /\ (SingleClosedLoopDone /\ NoLoss(eol_sc[1].key)) =>
       /\ totals.final_landfill = RMul(totals.virgin_prod, eol_sc[1].frac)
       /\ totals.final_landfill # Zero =>
            /\ value_chain[Len(value_chain)].name = "Landfilling, final"
            /\ value_chain[Len(value_chain)].output = totals.final_landfill

\* C3 witness: a complete run of a lossless closed loop of two cycles that ended
\* with a final landfilling.
C3_Witness ==
  /\ SingleClosedLoopDone
  /\ NoLoss(eol_sc[1].key)
  /\ eol_sc[1].n = 2
  /\ eol_sc[1].key = "Solvent Treatment and Precipitation"
  /\ HasFinalLandfill

\* The cost of a chain entry evaluated on its own: its required output times the
\* net per-unit cost of its technology computed from the financial table as read.
IndependentCost(e) ==
  RMul(e.output,
       Evaluate(e.technology, e.product,
                SelectSeq(design, LAMBDA r : r.Technology = e.technology),
                SuppressInputs(FinancialTable, e.initial),
                e.output).net_normalized_costs)

IndependentCosts(chain) == [k \in 1..Len(chain) |-> IndependentCost(chain[k])]

\* A complete run of an allocation whose fractions sum to 1 and whose cycle counts
\* are all 0.
SinglePassDone ==
  /\ pc = "done"
  /\ SumFractions(eol_sc) = One
  /\ \A k \in DOMAIN eol_sc : eol_sc[k].n = 0

NoSolventTreatment ==
  \A k \in DOMAIN eol_sc : eol_sc[k].key # "Solvent Treatment and Precipitation"

\* C4 as stated: with fractions summing to 1 and all cycle counts 0, the total
\* cost is the sum of required output * independently computed net per-unit cost
\* over the chain.
C4_NoCrossCoupling ==
  SinglePassDone => totals.total_cost = BuiltinSum(IndependentCosts(value_chain))

\* C4 amended: with fractions summing to 1, all cycle counts 0 and no solvent
\* treatment entry, the total cost is the sum of required output * independently
\* computed net per-unit cost over the chain.
C4_NoCrossCouplingWithoutSolventTreatment ==
  (SinglePassDone /\ NoSolventTreatment) =>
    totals.total_cost = BuiltinSum(IndependentCosts(value_chain))

\* C4 witness: a complete single-pass run of two entries, one of them the
\* cleaning loop with cycle count 0, none the solvent treatment.
C4_Witness ==
  /\ SinglePassDone
  /\ NoSolventTreatment
  /\ Len(eol_sc) = 2
  /\ \E k \in DOMAIN eol_sc : eol_sc[k].key = "Mechanical and Solvent Cleaning"
  /\ Len(value_chain) >= 4

\* The terminal sinks the claims name.
ClaimedSinks == {"Landfilling", "Incineration", "Pyrolysis"}

Names(chain) == [k \in 1..Len(chain) |-> chain[k].name]

LastName == value_chain[Len(value_chain)].name

\* C5: a terminal-sink entry contributes exactly one instance and no
\* 'Landfilling, final': its leftover is zero and the chain ends with the sink's
\* own instance when the entry is done; an allocation of sinks only gives the
\* chain [initial production, the sinks in order]; and {'Landfilling': (1.0, 0)}
\* gives [initial production, Landfilling] with total_cost the sum of the two
\* production costs.
C5_TerminalSinkOneInstance ==
  /\ (pc = "final" /\ eol_sc[i].key \in ClaimedSinks) =>
       /\ film_to_landfill = Zero
       /\ LastName = eol_sc[i].key
  /\ (pc = "eol" /\ i > 1 /\ eol_sc[i - 1].key \in ClaimedSinks) =>
       LastName = eol_sc[i - 1].key
  /\ (pc \in {"aggregate", "done"} /\ eol_sc # <<>>
        /\ eol_sc[Len(eol_sc)].key \in ClaimedSinks) =>
       LastName = eol_sc[Len(eol_sc)].key
  /\ (pc = "done" /\ \A k \in DOMAIN eol_sc : eol_sc[k].key \in ClaimedSinks) =>
       Names(value_chain) = <<production_process \o ", initial">>
                              \o [k \in 1..Len(eol_sc) |-> eol_sc[k].key]
  /\ (pc = "done" /\ eol_sc = <<[key |-> "Landfilling", frac |-> One, n |-> 0]>>) =>
       /\ Names(value_chain) = <<production_process \o ", initial", "Landfilling">>
       /\ totals.total_cost = RAdd(value_chain[1].production_cost,
                                   value_chain[2].production_cost)

\* C5 witness: the complete run of {'Landfilling': (1.0, 0)} with func_unit 1.
C5_Witness ==
  /\ pc = "done"
  /\ func_unit = One
  /\ eol_sc = <<[key |-> "Landfilling", frac |-> One, n |-> 0]>>
  /\ Len(value_chain) = 2

\* The leftover of an entry, for a virgin production v: the film surviving the
\* cycles of a closed loop, the efficiency's share of a single pass, nothing for
\* a terminal sink.
Leftover(e, v) ==
  IF e.key \in ClaimedSinks THEN Zero
  ELSE IF e.key \in ClosedLoop
  THEN RMul(RMul(v, e.frac), RPow(SurvivalRate(e.key), e.n))
  ELSE RMul(RMul(v, e.frac), OutputEfficiencies(design, e.key)[1])

\* The instances the entries of sc contribute, in order, as <<name, output>>; the
\* output is given for the final landfilling only (Unbound elsewhere).
RECURSIVE ExpectedEol(_, _)
ExpectedEol(sc, v) ==
  IF sc = <<>> THEN <<>>
  ELSE LET e == Head(sc)
       IN  <<<<e.key, Unbound>>>>
           \o (IF e.key = "Solvent Treatment and Precipitation"
               THEN <<<<StructureTable[1].Downstream, Unbound>>>> ELSE <<>>)
           \o (IF Leftover(e, v) # Zero
               THEN <<<<"Landfilling, final", Leftover(e, v)>>>> ELSE <<>>)
           \o ExpectedEol(Tail(sc), v)

\* The chain as <<name, output>>, the output kept for the final landfilling only.
Assembled(chain) ==
  [k \in 1..Len(chain) |->
     <<chain[k].name,
       IF chain[k].name = "Landfilling, final" THEN chain[k].output ELSE Unbound>>]

IsPrefix(s, t) == Len(s) <= Len(t) /\ s = SubSeq(t, 1, Len(s))

ExpectedChain ==
  <<<<production_process \o ", initial", Unbound>>>> \o ExpectedEol(eol_sc, virg_prod)

\* C6: the chain is assembled in order: the initial production renamed
\* '<production_process>, initial', then per entry the EOL instance, the
\* downstream regeneration (solvent treatment only) and a 'Landfilling, final' of
\* the entry's leftover when that is not zero.  While the chain is built it is a
\* prefix of that sequence, and the whole of it when the run is complete.
C6_ChainOrder ==
  /\ pc \in {"eol", "downstream", "feedback", "final", "aggregate", "done"} =>
       IsPrefix(Assembled(value_chain), ExpectedChain)
  /\ pc \in {"aggregate", "done"} => Assembled(value_chain) = ExpectedChain

\* C6 witness: a complete run whose first entry is the solvent treatment (three
\* instances) and whose second is a sink (one instance).
C6_Witness ==
  /\ pc = "done"
  /\ Len(eol_sc) = 2
  /\ eol_sc[1].key = "Solvent Treatment and Precipitation"
  /\ eol_sc[2].key = "Pyrolysis"
  /\ Names(value_chain) = <<production_process \o ", initial",
                            "Solvent Treatment and Precipitation", "Barrier Film",
                            "Landfilling, final", "Pyrolysis">>

\* The places of the chain that hold a regeneration instance (the only
\* evaluation that is not initial).
Regenerations == {k \in DOMAIN value_chain : ~value_chain[k].initial}

AllEqual(prices, x) == \A k \in DOMAIN prices : prices[k] = x

\* The prices of 'Barrier film' in the financial table as read.
OriginalPrices == <<R(3, 1), R(5, 1)>>

\* C7: the initial production, the solvent treatment and the regeneration
\* instance are evaluated with the original price of 'Barrier film'; every
\* evaluation after the regeneration instance sees its net normalized cost as the
\* price; the table holds the original price until the regeneration instance is
\* evaluated and the overwritten one from the step that follows it.
C7_PriceOverwrittenBeforeLaterEvaluations ==
  /\ \A k \in DOMAIN value_chain :
       IF \E j \in Regenerations : j < k
       THEN \A j \in Regenerations :
              j < k => AllEqual(value_chain[k].price_seen, value_chain[j].net_normalized_costs)
       ELSE value_chain[k].price_seen = OriginalPrices
  /\ downst_film # NoInstance => downst_film.price_seen = OriginalPrices
  /\ (downst_film = NoInstance \/ pc = "feedback") /\ pc # "returned" =>
       BarrierFilmPrices(finan) = OriginalPrices
  /\ Regenerations # {} =>
       AllEqual(BarrierFilmPrices(finan), downst_film.net_normalized_costs)

\* C7 witness: a complete run in which the solvent treatment is followed by its
\* final landfilling and by a later entry, both evaluated with a price other than
\* the original one.
C7_Witness ==
  /\ pc = "done"
  /\ \E j \in Regenerations :
       /\ j + 2 <= Len(value_chain)
       /\ value_chain[j + 1].name = "Landfilling, final"
       /\ value_chain[j + 1].price_seen # OriginalPrices
       /\ value_chain[j + 2].price_seen # OriginalPrices

InputCost(table, index) ==
  Values(SelectSeq(table, LAMBDA r : /\ r.Category = "Cost"
                                     /\ r.Variable = "Input"
                                     /\ r.Index = index))

EvaluatedNotInitial == downst_film # NoInstance \/ Regenerations # {}

\* C8: from the evaluation of a technology that is not initial onwards, the
\* input-cost rows of 'Nylon 6' and 'Polyethylene' of the shared financial table
\* are 0 in every state of the run.
C8_SuppressedInputsStayZero ==
  (pc # "returned" /\ EvaluatedNotInitial) =>
    /\ InputCost(finan, "Nylon 6") = <<Zero>>
    /\ InputCost(finan, "Polyethylene") = <<Zero>>

\* C8 witness: a complete run with a regeneration instance and an entry evaluated
\* after it.
C8_Witness ==
  /\ pc = "done"
  /\ \E j \in Regenerations : j + 2 <= Len(value_chain)
  /\ InputCost(FinancialTable, "Nylon 6") # <<Zero>>
  /\ InputCost(FinancialTable, "Polyethylene") # <<Zero>>

\* C9: for every production process and allocation, total_cost is the sum of the
\* production costs of the chain and total_eol_cost is total_cost less the
\* production cost of the first instance.
C9_EolCostExcludesInitial ==
  pc = "done" =>
    /\ totals.total_cost = BuiltinSum(ProductionCosts(value_chain))
    /\ totals.total_eol_cost = RSub(totals.total_cost, value_chain[1].production_cost)

HasDesignRow(name) == \E k \in DOMAIN design : design[k].Technology = name

IsOutput(name, index) ==
  \E k \in DOMAIN design : /\ design[k].Technology = name
                           /\ design[k].Variable = "Output"
                           /\ design[k].Index = index

\* C10: a technology without a row in the design table fails with the
\* technology-not-found error, and otherwise a product that is no Output index of
\* the technology fails with the product-not-found error; either way there is no
\* instance and the shared financial table is as it was, whatever the initial
\* flag.
C10_NotFoundBeforeAnyEffect ==
  pc = "returned" =>
    /\ ~HasDesignRow(call.name) =>
         /\ result.error = "technology"
         /\ result.inst = NoInstance
         /\ finan = FinancialTable
    /\ (HasDesignRow(call.name) /\ ~IsOutput(call.name, call.product)) =>
         /\ result.error = "product"
         /\ result.inst = NoInstance
         /\ finan = FinancialTable

\* C10 witness: a call that is not initial has failed for its product.
C10_Witness ==
  /\ pc = "returned"
  /\ ~call.initial
  /\ HasDesignRow(call.name)
  /\ ~IsOutput(call.name, call.product)
  /\ result.error = "product"

\* The production process or a technology of the allocation has no row in the
\* design table.
MissingTechnology ==
  \/ ~HasDesignRow(production_process)
  \/ \E k \in DOMAIN eol_sc : ~HasDesignRow(eol_sc[k].key)

\* C11: a scenario fails with a not-found error of a technology evaluation and in
\* no other way; when the production process or a technology of the allocation
\* has no row in the design table it does not complete, and fails with the
\* technology-not-found error.
C11_OnlyNotFoundFailure ==
  /\ failure \in {"none", "technology", "product"}
  /\ MissingTechnology =>
       /\ pc # "done"
       /\ pc = "failed" => failure = "technology"

\* A technology has been evaluated on its own, and an instance returned.
Evaluated == pc = "returned" /\ result.error = "none"

OperatingHours == Scalar(WithVariable(FinancialTable, "Operating Hours"))

\* The efficiency of an output line of a technology: that of its 'Output
\* efficiency' row, 1 without one.
LineEfficiency(name, index) ==
  LET rows == SelectSeq(design, LAMBDA r : /\ r.Technology = name
                                           /\ r.Variable = "Output efficiency"
                                           /\ r.Index = index)
  IN  IF rows = <<>> THEN One ELSE rows[1].Value

\* One line per Output row of the technology, with the efficiency of the line.
ExpectedProduction(name) ==
  LET out == SelectSeq(design, LAMBDA r : r.Technology = name /\ r.Variable = "Output")
  IN  [k \in 1..Len(out) |->
         [Index |-> out[k].Index,
          Actual |-> RMul(RMul(out[k].Value, OperatingHours),
                          LineEfficiency(name, out[k].Index)),
          Theoretical |-> RMul(out[k].Value, OperatingHours)]]

\* C12: the production table of an evaluated technology has one line for every
\* Output row, theoretical = nominal amount * operating hours, actual =
\* theoretical * the efficiency of the line, 1 for a line without an 'Output
\* efficiency' row.
C12_ProductionPerOutputLine ==
  Evaluated => result.inst.output_amounts = ExpectedProduction(call.name)

\* The actual annual amount of the named product of the call.
PrimaryAmount ==
  LET rows == SelectSeq(ExpectedProduction(call.name), LAMBDA o : o.Index = call.product)
  IN  rows[1].Actual

\* C13: every normalized cost and revenue line is the annual value divided by the
\* actual annual amount of the named primary product, whatever its place among
\* the Output rows, and production_cost = required output * (sum of the
\* normalized costs - sum of the normalized revenue).
C13_NormalizedByNamedProduct ==
  Evaluated =>
    LET inst == result.inst
    IN  /\ inst.normalized_costs = DivideValues(inst.annual_costs, PrimaryAmount)
        /\ inst.normalized_revenue = DivideValues(inst.annual_revenue, PrimaryAmount)
        /\ inst.production_cost =
             RMul(call.output, RSub(SeriesSum(Values(inst.normalized_costs)),
                                    SeriesSum(Values(inst.normalized_revenue))))

\* The first-lifetime amount (X_1) of an entry: the virgin film of its closed
\* loop, or the share of the functional unit sent to a single pass.
FirstLifetime(e) ==
  IF e.key \in ClosedLoop
  THEN VirginProduction(e.frac, SurvivalRate(e.key), e.n)
  ELSE RMul(func_unit, e.frac)

RECURSIVE SumFirstLifetimes(_)
SumFirstLifetimes(sc) ==
  IF sc = <<>> THEN Zero ELSE RAdd(FirstLifetime(Head(sc)), SumFirstLifetimes(Tail(sc)))

\* C14: for an allocation of the whole film, the initial production instance is
\* sized to the sum of the first-lifetime amounts of the entries, whatever their
\* order, and that sum is the virgin production reported.
C14_VirginProductionIsSum ==
  (SumFractions(eol_sc) = One /\ value_chain # <<>> /\ pc # "returned") =>
    /\ value_chain[1].output = SumFirstLifetimes(eol_sc)
    /\ pc = "done" => totals.virgin_prod = SumFirstLifetimes(eol_sc)

\* C15: the table of production costs by technology has one row per instance of
\* the value chain, in order and with its name and cost, so that its cost column
\* sums to total_cost.
C15_CostTableRowPerInstance ==
  pc = "done" =>
    /\ totals.process_production_costs =
         [k \in 1..Len(value_chain) |->
            [Technology |-> value_chain[k].name, Cost |-> value_chain[k].production_cost]]
    /\ BuiltinSum([k \in 1..Len(totals.process_production_costs) |->
                     totals.process_production_costs[k].Cost]) = totals.total_cost

====
